---- MODULE Spec2Model ----
(***************************************************************************)
(* Senior Living Placement Assistant (src/streamlit_app.py).               *)
(*                                                                         *)
(* The Streamlit script is modelled as a state machine over its session    *)
(* state (transcription, preferences, results), the uploaded workbook, the *)
(* shortlist rendered by the Results tab, and the position of the          *)
(* "Process Communities" handler in its body.  Python values are tagged    *)
(* records; text that the code inspects character by character (strip,     *)
(* lower, contains, split, float) is a sequence of one-character strings.  *)
(***************************************************************************)
EXTENDS Integers, Sequences, FiniteSets, TLC

VARIABLES
    excel_file,          \* the uploaded workbook as read by pd.read_excel
    transcription,       \* st.session_state.transcription
    preferences,         \* st.session_state.preferences
    results,             \* st.session_state.results
    top5,                \* the shortlist the Results tab shows and exports
    pc,                  \* position inside the Process Communities handler
    df,                  \* the handler's local table
    calls,               \* geocoder invocations and sleeps of the current run
    last                 \* which handler ran last and how it ended

vars == <<excel_file, transcription, preferences, results, top5, pc, df, calls, last>>

----------------------------------------------------------------------------
(* Python values *)

PyNone == [t |-> "none"]
NaN == [t |-> "nan"]
Str(s) == [t |-> "str", v |-> s]
Num(n) == [t |-> "num", v |-> n]
Err(e) == [err |-> e]
IsErr(x) == "err" \in DOMAIN x

isna(x) == x.t \in {"nan", "none"}
notna(x) == ~isna(x)

(* Character-level text *)

LowerChar(c) ==
    CASE c = "A" -> "a" [] c = "B" -> "b" [] c = "C" -> "c" [] c = "D" -> "d"
      [] c = "E" -> "e" [] c = "F" -> "f" [] c = "G" -> "g" [] c = "H" -> "h"
      [] c = "I" -> "i" [] c = "J" -> "j" [] c = "K" -> "k" [] c = "L" -> "l"
      [] c = "M" -> "m" [] c = "N" -> "n" [] c = "O" -> "o" [] c = "P" -> "p"
      [] c = "Q" -> "q" [] c = "R" -> "r" [] c = "S" -> "s" [] c = "T" -> "t"
      [] c = "U" -> "u" [] c = "V" -> "v" [] c = "W" -> "w" [] c = "X" -> "x"
      [] c = "Y" -> "y" [] c = "Z" -> "z" [] OTHER -> c

lower(s) == [i \in 1..Len(s) |-> LowerChar(s[i])]

Whitespace == {" ", "\t", "\n"}

RECURSIVE lstrip(_)
lstrip(s) == IF s # <<>> /\ Head(s) \in Whitespace THEN lstrip(Tail(s)) ELSE s

RECURSIVE rstrip(_)
rstrip(s) ==
    IF s # <<>> /\ s[Len(s)] \in Whitespace THEN rstrip(SubSeq(s, 1, Len(s) - 1)) ELSE s

strip(s) == rstrip(lstrip(s))

contains(s, pat) ==
    \E i \in 1..(Len(s) - Len(pat) + 1) : SubSeq(s, i, i + Len(pat) - 1) = pat

Digits == <<"0", "1", "2", "3", "4", "5", "6", "7", "8", "9">>
IsDigit(c) == \E d \in 1..10 : Digits[d] = c
DigitVal(c) == (CHOOSE d \in 1..10 : Digits[d] = c) - 1

IsNumeric(s) == s # <<>> /\ \A i \in 1..Len(s) : IsDigit(s[i])

RECURSIVE ParseInt(_)
ParseInt(s) ==
    IF s = <<>> THEN 0 ELSE 10 * ParseInt(SubSeq(s, 1, Len(s) - 1)) + DigitVal(s[Len(s)])

RECURSIVE IntText(_)
IntText(n) == IF n < 10 THEN <<Digits[n + 1]>> ELSE IntText(n \div 10) \o <<Digits[(n % 10) + 1]>>

\* str(x) and Series.astype(str)
str(x) ==
    CASE x.t = "str" -> x.v
      [] x.t = "num" -> IntText(x.v)
      [] x.t = "nan" -> <<"n", "a", "n">>
      [] x.t = "none" -> <<"N", "o", "n", "e">>

\* s.split(",")
RECURSIVE split(_)
split(s) ==
    IF \A i \in 1..Len(s) : s[i] # ","
    THEN <<s>>
    ELSE LET k == CHOOSE i \in 1..Len(s) : s[i] = "," /\ \A j \in 1..(i - 1) : s[j] # ","
         IN  <<SubSeq(s, 1, k - 1)>> \o split(SubSeq(s, k + 1, Len(s)))

----------------------------------------------------------------------------
(* Tables: a set of column names and a sequence of rows; a row carries its *)
(* pandas index label and one cell per column.                              *)

Row(i, cell) == [index |-> i, cell |-> cell]
Table(columns, rows) == [columns |-> columns, rows |-> rows]

\* row.get(col, default)
RowGet(row, col, default) == IF col \in DOMAIN row.cell THEN row.cell[col] ELSE default

\* df[mask]: mask is a sequence of booleans aligned with the rows
RECURSIVE SelectRows(_, _)
SelectRows(rows, mask) ==
    IF rows = <<>> THEN <<>>
    ELSE IF Head(mask) THEN <<Head(rows)>> \o SelectRows(Tail(rows), Tail(mask))
         ELSE SelectRows(Tail(rows), Tail(mask))

\* df[col] = values: values is a sequence aligned with the rows
SetColumn(t, col, values) ==
    Table(t.columns \cup {col},
          [i \in 1..Len(t.rows) |->
              Row(t.rows[i].index,
                  [c \in t.columns \cup {col} |->
                      IF c = col THEN values[i] ELSE t.rows[i].cell[c]])])

\* df[col] as a sequence of cells
Column(t, col) == [i \in 1..Len(t.rows) |-> t.rows[i].cell[col]]

\* prefs.get(key)
Get(prefs, key) == IF key \in DOMAIN prefs THEN prefs[key] ELSE PyNone

\* Python truth of a value
Truthy(x) ==
    CASE x.t = "none" -> FALSE
      [] x.t = "num" -> x.v # 0
      [] x.t = "list" -> x.v # <<>>
      [] OTHER -> TRUE

----------------------------------------------------------------------------
(* The filter chain, lines 149-187.  Every stage passes an earlier          *)
(* exception on; an exception is what the handler's except clause catches.  *)

Unknown == <<"U", "n", "k", "n", "o", "w", "n">>
yes == <<"y", "e", "s">>

\* Series.str is defined for an object column only: read_excel gives a column
\* without any text cell a numeric dtype.
HasStrAccessor(t, col) ==
    t.rows = <<>> \/ \E i \in 1..Len(t.rows) : t.rows[i].cell[col].t = "str"

\* lines 150-154
CareLevelFilter(prefs, t) ==
    IF IsErr(t) THEN t
    ELSE IF Get(prefs, "care_level") = Str(Unknown) THEN t
    ELSE IF "Type of Service" \notin t.columns THEN Err("KeyError")
    ELSE IF ~HasStrAccessor(t, "Type of Service") THEN Err("AttributeError")
    ELSE IF "care_level" \notin DOMAIN prefs THEN Err("KeyError")
    ELSE IF prefs["care_level"].t # "str" THEN Err("TypeError")
    ELSE LET col == Column(t, "Type of Service")
             mask == [i \in 1..Len(col) |->
                         /\ col[i].t = "str"
                         /\ contains(lower(col[i].v), lower(prefs["care_level"].v))]
         IN  Table(t.columns, SelectRows(t.rows, mask))

\* lines 157-160 (column "Enhanced") and 163-166 (column "Enriched")
FlagFilter(prefs, key, colname, t) ==
    IF IsErr(t) THEN t
    ELSE IF Get(prefs, key) # Str("Yes") THEN t
    ELSE IF colname \notin t.columns THEN Err("KeyError")
    ELSE LET col == Column(t, colname)
             mask == [i \in 1..Len(col) |-> lower(str(col[i])) = yes]
         IN  Table(t.columns, SelectRows(t.rows, mask))

EnhancedFilter(prefs, t) == FlagFilter(prefs, "enhanced", "Enhanced", t)
EnrichedFilter(prefs, t) == FlagFilter(prefs, "enriched", "Enriched", t)

\* lines 169-175
Allowed(move_in) ==
    IF move_in = Str("Immediate (0-1 months)")
    THEN <<"Available", "Unconfirmed">>
    ELSE IF move_in = Str("Near-term (1-6 months)")
    THEN <<"Available", "Unconfirmed", "1-2 months", "2-4 months", "4-6 months">>
    ELSE <<>>

\* the waitlist stage, had it put the latest survivors first
WaitlistFilterResorting(prefs, t) ==
    IF IsErr(t) THEN t
    ELSE LET allowed == Allowed(Get(prefs, "move_in_window")) IN
         IF allowed = <<>> THEN t
         ELSE IF "Est. Waitlist Length" \notin t.columns THEN Err("KeyError")
         ELSE LET col == Column(t, "Est. Waitlist Length")
                  mask == [i \in 1..Len(col) |->
                              \E k \in 1..Len(allowed) : col[i] = Str(allowed[k])]
                  kept == SelectRows(t.rows, mask)
              IN  Table(t.columns, [k \in 1..Len(kept) |-> kept[Len(kept) + 1 - k]])

\* lines 177-180
WaitlistFilter(prefs, t) ==
    IF IsErr(t) THEN t
    ELSE LET allowed == Allowed(Get(prefs, "move_in_window")) IN
         IF allowed = <<>> THEN t
         ELSE IF "Est. Waitlist Length" \notin t.columns THEN Err("KeyError")
         ELSE LET col == Column(t, "Est. Waitlist Length")
                  mask == [i \in 1..Len(col) |->
                              \E k \in 1..Len(allowed) : col[i] = Str(allowed[k])]
              IN  Table(t.columns, SelectRows(t.rows, mask))

\* pd.to_numeric(cell, errors="coerce")
to_numeric(x) ==
    CASE x.t = "num" -> x
      [] x.t = "str" -> IF IsNumeric(x.v) THEN Num(ParseInt(x.v)) ELSE NaN
      [] OTHER -> NaN

\* the budget stage, had it let a row without a numeric fee through
BudgetFilterKeepingUnpriced(prefs, t) ==
    IF IsErr(t) THEN t
    ELSE IF ~Truthy(Get(prefs, "max_budget")) THEN t
    ELSE IF "Monthly Fee" \notin t.columns THEN Err("KeyError")
    ELSE LET fee == Column(t, "Monthly Fee")
             coerced == SetColumn(t, "Monthly Fee", [i \in 1..Len(fee) |-> to_numeric(fee[i])])
             col == Column(coerced, "Monthly Fee")
             mask == [i \in 1..Len(col) |->
                         col[i].t # "num" \/ col[i].v <= prefs["max_budget"].v]
         IN  Table(coerced.columns, SelectRows(coerced.rows, mask))

\* lines 183-187
BudgetFilter(prefs, t) ==
    IF IsErr(t) THEN t
    ELSE IF ~Truthy(Get(prefs, "max_budget")) THEN t
    ELSE IF "Monthly Fee" \notin t.columns THEN Err("KeyError")
    ELSE LET fee == Column(t, "Monthly Fee")
             coerced == SetColumn(t, "Monthly Fee", [i \in 1..Len(fee) |-> to_numeric(fee[i])])
             col == Column(coerced, "Monthly Fee")
             mask == [i \in 1..Len(col) |->
                         col[i].t = "num" /\ col[i].v <= prefs["max_budget"].v]
         IN  Table(coerced.columns, SelectRows(coerced.rows, mask))

\* lines 149-187
FilterChain(prefs, t) ==
    BudgetFilter(prefs,
        WaitlistFilter(prefs,
            EnrichedFilter(prefs,
                EnhancedFilter(prefs,
                    CareLevelFilter(prefs, t)))))

----------------------------------------------------------------------------
(* Priority ranking, lines 189-203 *)

\* lines 191-200
assign_priority(row) ==
    LET contract == lower(strip(str(RowGet(row, "Contract (w rate)?", Str(<<>>)))))
        placement == lower(strip(str(RowGet(row, "Work with Placement?", Str(<<>>)))))
    IN  IF contract \notin {<<"n", "o">>, <<"n", "a", "n">>, <<>>}
        THEN 1
        ELSE IF contract = <<"n", "o">> /\ placement = yes
        THEN 2
        ELSE 3

RECURSIVE Perms(_)
Perms(S) ==
    IF S = {} THEN {<<>>}
    ELSE UNION {{<<x>> \o q : q \in Perms(S \ {x})} : x \in S}

Min(S) == CHOOSE x \in S : \A y \in S : x <= y

\* argsort(kind="quicksort") of integer keys over the positions in S: the
\* order of equal keys is not specified, so every ascending arrangement is
\* a possible result.
RECURSIVE QuicksortOrders(_, _)
QuicksortOrders(keys, S) ==
    IF S = {} THEN {<<>>}
    ELSE LET m == Min({keys[i] : i \in S})
             G == {i \in S : keys[i] = m}
         IN  {g \o q : g \in Perms(G), q \in QuicksortOrders(keys, S \ G)}

Take(rows, order) == [k \in 1..Len(order) |-> rows[order[k]]]

\* line 202
WithPriority(t) ==
    SetColumn(t, "Priority_Level",
              [i \in 1..Len(t.rows) |-> Num(assign_priority(t.rows[i]))])

\* line 203: df.sort_values(by="Priority_Level"), default kind "quicksort"
SortByPriority(t) ==
    {Table(t.columns, Take(t.rows, order)) :
        order \in QuicksortOrders([i \in 1..Len(t.rows) |-> t.rows[i].cell["Priority_Level"].v],
                                  1..Len(t.rows))}

----------------------------------------------------------------------------
(* Geographic ranking, lines 205-282 *)

List(x) == [t |-> "list", v |-> x]
Coords(lat, lon) == [t |-> "coords", v |-> <<lat, lon>>]

Outcomes == {"hit", "miss", "raise"}
Geocode(outcome) == [op |-> "geocode", outcome |-> outcome]
Sleep == [op |-> "sleep", outcome |-> "done"]

\* What the external services answer for a text they know.
NominatimPlace(text) ==
    CASE text = "Webster, NY" -> Coords(4, 7)
      [] text = "Penfield, NY" -> Coords(3, 8)
      [] OTHER -> Coords(3, 6)
ZipPlace(n) == Coords((n \div 10) % 10, n % 10)

\* line 225
RochesterDefault == Coords(3, 6)

Abs(x) == IF x < 0 THEN -x ELSE x

\* geodesic(a, b).miles on the model's grid
geodesic_miles(a, b) == Abs(a.v[1] - b.v[1]) + Abs(a.v[2] - b.v[2])

\* lines 210-212
ClientLocations(prefs) ==
    LET v == IF "preferred_location" \in DOMAIN prefs
             THEN prefs["preferred_location"]
             ELSE List(<<"Rochester, NY">>)
    IN  IF v.t = "str" THEN List(<<v.v>>)
        ELSE IF v.t = "list" THEN v
        ELSE Err("TypeError")

\* lines 214-222: oc[i] is what the i-th lookup does
RECURSIVE ClientGeocoding(_, _)
ClientGeocoding(locs, oc) ==
    IF locs = <<>> THEN [coords |-> <<>>, events |-> <<>>]
    ELSE LET rest == ClientGeocoding(Tail(locs), Tail(oc))
             here ==
                 CASE Head(oc) = "hit" ->
                          [coords |-> <<NominatimPlace(Head(locs))>>,
                           events |-> <<Geocode("hit"), Sleep>>]
                   [] Head(oc) = "miss" ->
                          [coords |-> <<>>, events |-> <<Geocode("miss"), Sleep>>]
                   [] Head(oc) = "raise" ->
                          [coords |-> <<>>, events |-> <<Geocode("raise")>>]
         IN  [coords |-> here.coords \o rest.coords, events |-> here.events \o rest.events]

\* lines 228-232
ZipLike(col) == col \in {"ZIP", "Zip Code", "Postal Code"}
HasZipColumn(t) == \E c \in t.columns : ZipLike(c)
ZipColumn(t) == CHOOSE c \in t.columns : ZipLike(c)

\* float(text)
CanFloat(x) == x.t = "num" \/ (x.t = "str" /\ IsNumeric(strip(x.v)))
\* int(float(x)) of a value float() accepts
IntOf(x) == IF x.t = "num" THEN x.v ELSE ParseInt(strip(x.v))

\* lines 237-243: the stored geocode, or None
StoredCoords(row) ==
    LET geo_val == RowGet(row, "Geocode", PyNone)
    IN  IF notna(geo_val) /\ geo_val.t = "str" /\ contains(geo_val.v, <<",">>)
        THEN LET parts == split(geo_val.v)
             IN  IF Len(parts) = 2 /\ CanFloat(Str(parts[1])) /\ CanFloat(Str(parts[2]))
                 THEN Coords(IntOf(Str(parts[1])), IntOf(Str(parts[2])))
                 ELSE PyNone
        ELSE PyNone

\* lines 246-250: whether geocode_community reaches geolocator.geocode
NeedsLookup(row, zip_col) ==
    /\ StoredCoords(row) = PyNone
    /\ notna(row.cell[zip_col])
    /\ CanFloat(row.cell[zip_col])

\* lines 236-258: Community_Coords and the geocoder events, row by row
RECURSIVE GeocodeCommunities(_, _, _)
GeocodeCommunities(rows, zip_col, oc) ==
    IF rows = <<>> THEN [coords |-> <<>>, events |-> <<>>]
    ELSE LET row == Head(rows)
             lookup == NeedsLookup(row, zip_col)
             rest == GeocodeCommunities(Tail(rows), zip_col, IF lookup THEN Tail(oc) ELSE oc)
             here ==
                 IF ~lookup
                 THEN [coords |-> StoredCoords(row), events |-> <<>>]
                 ELSE CASE Head(oc) = "hit" ->
                               [coords |-> ZipPlace(IntOf(row.cell[zip_col])),
                                events |-> <<Geocode("hit"), Sleep>>]
                        [] Head(oc) = "miss" ->
                               [coords |-> PyNone, events |-> <<Geocode("miss"), Sleep>>]
                        [] Head(oc) = "raise" ->
                               [coords |-> PyNone, events |-> <<Geocode("raise")>>]
         IN  [coords |-> <<here.coords>> \o rest.coords, events |-> here.events \o rest.events]

\* lines 261-268
compute_distance(coords, client_coords_list) ==
    IF coords = PyNone THEN PyNone
    ELSE Num(Min({geodesic_miles(coords, client_coords_list[k]) :
                    k \in 1..Len(client_coords_list)}))

\* line 270: a column holding at least one number is a float column, where
\* None is stored as NaN; a column of None only stays an object column.
DistanceColumn(coords, client_coords_list) ==
    LET d == [i \in 1..Len(coords) |-> compute_distance(coords[i], client_coords_list)]
    IN  IF \E i \in 1..Len(d) : d[i].t = "num"
        THEN [i \in 1..Len(d) |-> IF d[i] = PyNone THEN NaN ELSE d[i]]
        ELSE d

\* lines 274-279: the lambda raises ValueError on a postal code float() rejects
TownRaises(t, zip_col) ==
    \E i \in 1..Len(t.rows) :
        notna(t.rows[i].cell[zip_col]) /\ ~CanFloat(t.rows[i].cell[zip_col])
TownOf(z) == IF notna(z) THEN [t |-> "town", v |-> IntOf(z)] ELSE PyNone
StateOf(z) == IF notna(z) THEN [t |-> "state", v |-> IntOf(z)] ELSE PyNone

\* (Priority_Level, Distance_miles) ascending, missing distance last
KeyLess(a, b) ==
    LET pa == a.cell["Priority_Level"].v
        pb == b.cell["Priority_Level"].v
        da == a.cell["Distance_miles"]
        db == b.cell["Distance_miles"]
    IN  \/ pa < pb
        \/ pa = pb /\ notna(da) /\ (isna(db) \/ da.v < db.v)

\* line 282: sort_values on two keys is a stable lexsort
RECURSIVE SortByPriorityAndDistance(_)
SortByPriorityAndDistance(rows) ==
    IF rows = <<>> THEN <<>>
    ELSE LET k == CHOOSE i \in 1..Len(rows) :
                     /\ \A j \in 1..Len(rows) : ~KeyLess(rows[j], rows[i])
                     /\ \A j \in 1..(i - 1) : KeyLess(rows[i], rows[j])
         IN  <<rows[k]>> \o
             SortByPriorityAndDistance(SubSeq(rows, 1, k - 1) \o SubSeq(rows, k + 1, Len(rows)))

----------------------------------------------------------------------------
(* The Results tab, lines 293-299 *)

TopN == 5

head(rows, n) == SubSeq(rows, 1, IF Len(rows) < n THEN Len(rows) ELSE n)

\* argsort(kind="mergesort") of integer keys over the positions in S
RECURSIVE MergesortOrder(_, _)
MergesortOrder(keys, S) ==
    IF S = {} THEN <<>>
    ELSE LET m == Min({keys[i] : i \in S})
             k == Min({i \in S : keys[i] = m})
         IN  <<k>> \o MergesortOrder(keys, S \ {k})

\* the positions in S, ascending
RECURSIVE Ascending(_)
Ascending(S) == IF S = {} THEN <<>> ELSE <<Min(S)>> \o Ascending(S \ {Min(S)})

\* df.nsmallest(5, "Distance_miles"): an object column is refused; a table of
\* at most n rows is sorted whole with the default quicksort; a longer one
\* takes the n smallest with a stable sort; missing distances come last.
nsmallest(t, n) ==
    LET d == Column(t, "Distance_miles")
        valid == {i \in 1..Len(d) : d[i].t = "num"}
        missing == (1..Len(d)) \ valid
        keys == [i \in 1..Len(d) |-> IF i \in valid THEN d[i].v ELSE 0]
    IN  IF t.rows # <<>> /\ valid = {}
        THEN {Err("TypeError")}
        ELSE IF n >= Len(t.rows)
        THEN {Table(t.columns, Take(t.rows, order \o Ascending(missing))) :
                 order \in QuicksortOrders(keys, valid)}
        ELSE {Table(t.columns,
                    head(Take(t.rows, MergesortOrder(keys, valid) \o Ascending(missing)), n))}

\* line 299; nothing is shown while results is None (line 293)
Shortlists(res) ==
    IF res = PyNone THEN {PyNone}
    ELSE IF "Distance_miles" \in res.columns
    THEN nsmallest(res, TopN)
    ELSE {Table(res.columns, head(res.rows, TopN))}

----------------------------------------------------------------------------
(* The handlers.  A click reruns the whole script: the handler of the       *)
(* clicked button runs, then the Results tab is rendered from the session.  *)

Ended(step, outcome, error) == [step |-> step, outcome |-> outcome, error |-> error]

\* line 137: "not st.session_state.preferences"
HasPreferences == preferences # PyNone /\ DOMAIN preferences # {}

\* lines 287-288, then the Results tab
Failed(error, events) ==
    /\ pc' = "idle"
    /\ df' = PyNone
    /\ calls' = events
    /\ last' = Ended("process", "error", error)
    /\ top5' \in Shortlists(results)
    /\ UNCHANGED <<excel_file, transcription, preferences, results>>

\* lines 284-285, then the Results tab
Stored(t, events) ==
    /\ results' = t
    /\ pc' = "idle"
    /\ df' = PyNone
    /\ calls' = events
    /\ last' = Ended("process", "ok", "")
    /\ top5' \in Shortlists(t)
    /\ UNCHANGED <<excel_file, transcription, preferences>>

\* lines 142-187
ProcessFilter ==
    /\ pc = "idle"
    /\ HasPreferences
    /\ excel_file # PyNone
    /\ LET out == FilterChain(preferences, excel_file)
       IN  IF IsErr(out)
           THEN Failed(out.err, <<>>)
           ELSE /\ df' = out
                /\ pc' = "priority"
                /\ calls' = <<>>
                /\ UNCHANGED <<excel_file, transcription, preferences, results, top5, last>>

\* lines 189-203
ProcessPriority ==
    /\ pc = "priority"
    /\ df' \in SortByPriority(WithPriority(df))
    /\ pc' = "geo"
    /\ UNCHANGED <<excel_file, transcription, preferences, results, top5, calls, last>>

LookupsNeeded(locs, t) ==
    Len(locs) +
    (IF HasZipColumn(t)
     THEN Cardinality({i \in 1..Len(t.rows) : NeedsLookup(t.rows[i], ZipColumn(t))})
     ELSE 0)

\* lines 258-282, given the client coordinates and the geocoder's answers
RankByDistance(t, client_coords_list, oc) ==
    LET zip_col == ZipColumn(t)
        community == GeocodeCommunities(t.rows, zip_col, oc)
        t1 == SetColumn(t, "Community_Coords", community.coords)
        t2 == SetColumn(t1, "Distance_miles",
                        DistanceColumn(community.coords, client_coords_list))
        t3 == SetColumn(t2, "Town", [i \in 1..Len(t.rows) |-> TownOf(t.rows[i].cell[zip_col])])
        t4 == SetColumn(t3, "State", [i \in 1..Len(t.rows) |-> StateOf(t.rows[i].cell[zip_col])])
    IN  IF TownRaises(t, zip_col)
        THEN [err |-> "ValueError", events |-> community.events]
        ELSE [table |-> Table(t4.columns, SortByPriorityAndDistance(t4.rows)),
              events |-> community.events]

\* lines 205-288
ProcessGeo ==
    /\ pc = "geo"
    /\ LET client_locations == ClientLocations(preferences)
           locs == client_locations.v
       IN  IF IsErr(client_locations)
           THEN Failed(client_locations.err, <<>>)
           ELSE \E oc \in [1..LookupsNeeded(locs, df) -> Outcomes] :
                  LET client == ClientGeocoding(locs, SubSeq(oc, 1, Len(locs)))
                      client_coords_list ==
                          IF client.coords = <<>> THEN <<RochesterDefault>> ELSE client.coords
                  IN  IF ~HasZipColumn(df)
                      THEN Stored(df, client.events)
                      ELSE LET ranked == RankByDistance(df, client_coords_list,
                                                        SubSeq(oc, Len(locs) + 1, Len(oc)))
                           IN  IF IsErr(ranked)
                               THEN Failed(ranked.err, client.events \o ranked.events)
                               ELSE Stored(ranked.table, client.events \o ranked.events)

\* what the transcription service may return
Transcripts == {Str("transcript 1"), Str("transcript 2")}

\* lines 64-90: an exception before the transcription is stored
TranscribeFails ==
    /\ pc = "idle"
    /\ last' = Ended("transcribe", "error", "Exception")
    /\ top5' \in Shortlists(results)
    /\ UNCHANGED <<excel_file, transcription, preferences, results, pc, df, calls>>

\* lines 81-83: st.stop() ends the script run; no later tab is rendered
TranscribeStops ==
    /\ pc = "idle"
    /\ last' = Ended("transcribe", "stopped", "")
    /\ top5' = PyNone
    /\ UNCHANGED <<excel_file, transcription, preferences, results, pc, df, calls>>

\* lines 92-126: the transcription is stored, then the extraction raises
TranscribeExtractionFails ==
    /\ pc = "idle"
    /\ transcription' \in Transcripts
    /\ last' = Ended("transcribe", "error", "Exception")
    /\ top5' \in Shortlists(results)
    /\ UNCHANGED <<excel_file, preferences, results, pc, df, calls>>

----------------------------------------------------------------------------
(* Input domains *)

AL == <<"A", "L">>

AllColumns ==
    {"Type of Service", "Monthly Fee", "Enhanced", "Enriched", "Est. Waitlist Length",
     "Contract (w rate)?", "Work with Placement?", "ZIP", "Geocode"}

\* A community that passes every filter: contracted, with a stored geocode.
BaseCells ==
    [c \in AllColumns |->
        CASE c = "Type of Service" -> Str(<<"I", "L", "/", "a", "l">>)
          [] c = "Monthly Fee" -> Num(2500)
          [] c = "Enhanced" -> Str(<<"Y", "E", "S">>)
          [] c = "Enriched" -> Str(<<"y", "e", "s">>)
          [] c = "Est. Waitlist Length" -> Str("Available")
          [] c = "Contract (w rate)?" -> Str(<<"1", "0", "%">>)
          [] c = "Work with Placement?" -> Str(<<"Y", "e", "s">>)
          [] c = "ZIP" -> Num(14580)
          [] c = "Geocode" -> Str(<<"3", ",", " ", "9">>)]

\* the workbook with the given columns and one row per element of cells
Workbook(columns, cells) ==
    Table(columns, [i \in 1..Len(cells) |-> Row(i - 1, [c \in columns |-> cells[i][c]])])

SeqsUpTo(S, n) == UNION {[1..k -> S] : k \in 0..n}

\* a dict with the given keys
Dict(keys, value) == [k \in keys |-> value[k]]

CompletePrefs ==
    [k \in {"care_level", "preferred_location", "enhanced", "enriched", "move_in_window",
            "max_budget"} |->
        CASE k = "care_level" -> Str(AL)
          [] k = "preferred_location" -> List(<<"Webster, NY">>)
          [] k = "enhanced" -> Str("Yes")
          [] k = "enriched" -> Str("No")
          [] k = "move_in_window" -> Str("Flexible (6+ months)")
          [] k = "max_budget" -> Num(3000)]

\* what json.loads of the model's answer may be
PrefsLLM == {CompletePrefs, Dict({"enhanced", "max_budget"}, CompletePrefs)}

\* lines 92-129
TranscribeOk ==
    /\ pc = "idle"
    /\ transcription' \in Transcripts
    /\ preferences' \in PrefsLLM
    /\ last' = Ended("transcribe", "ok", "")
    /\ top5' \in Shortlists(results)
    /\ UNCHANGED <<excel_file, results, pc, df, calls>>

\* any other interaction: the script reruns and no button is clicked
Rerun ==
    /\ pc = "idle"
    /\ top5' \in Shortlists(results)
    /\ UNCHANGED <<excel_file, transcription, preferences, results, pc, df, calls, last>>

Next ==
    \/ TranscribeFails
    \/ TranscribeStops
    \/ TranscribeExtractionFails
    \/ TranscribeOk
    \/ ProcessFilter
    \/ ProcessPriority
    \/ ProcessGeo
    \/ Rerun

\* the steps of the Process Communities handler alone
ProcessNext ==
    \/ ProcessFilter
    \/ ProcessPriority
    \/ ProcessGeo
    \/ Rerun

\* The session after the uploads, before or after a first extraction.
InitWith(workbooks, prefs) ==
    /\ excel_file \in workbooks
    /\ preferences \in prefs \cup {PyNone}
    /\ transcription = IF preferences = PyNone THEN PyNone ELSE Str("transcript 0")
    /\ results = PyNone
    /\ top5 = PyNone
    /\ pc = "idle"
    /\ df = PyNone
    /\ calls = <<>>
    /\ last = Ended("start", "ok", "")

----------------------------------------------------------------------------
(* SpecFilter: workbooks and preferences that exercise the filter chain *)

MaxRowsFilter == 2

\* cells with the listed columns replaced: changes is a function on columns
Change(cells, changes) ==
    [c \in DOMAIN cells |-> IF c \in DOMAIN changes THEN changes[c] ELSE cells[c]]

No == <<"N", "o">>

\* Communities that differ from the base one in what the filters read; each
\* sits at a place of its own.
FilterRows ==
    {BaseCells,
     Change(BaseCells, [c \in {"Type of Service", "Monthly Fee", "Contract (w rate)?", "Geocode"} |->
        CASE c = "Type of Service" -> Str(<<"M", "C">>)
          [] c = "Monthly Fee" -> Str(<<"3", "0", "0", "0">>)
          [] c = "Contract (w rate)?" -> Str(No)
          [] c = "Geocode" -> Str(<<"3", ",", "7">>)]),
     Change(BaseCells, [c \in {"Type of Service", "Monthly Fee", "Est. Waitlist Length",
                               "Contract (w rate)?", "Work with Placement?", "Geocode"} |->
        CASE c = "Type of Service" -> NaN
          [] c = "Monthly Fee" -> NaN
          [] c = "Est. Waitlist Length" -> Str("1 year")
          [] c = "Contract (w rate)?" -> NaN
          [] c = "Work with Placement?" -> Str(No)
          [] c = "Geocode" -> Str(<<"3", ",", "8">>)]),
     Change(BaseCells, [c \in {"Monthly Fee", "Enhanced", "Geocode"} |->
        CASE c = "Monthly Fee" -> Num(3500)
          [] c = "Enhanced" -> Str(<<"n", "o">>)
          [] c = "Geocode" -> Str(<<"3", ",", "5">>)]),
     Change(BaseCells, [c \in {"Monthly Fee", "Est. Waitlist Length", "Contract (w rate)?",
                               "Geocode"} |->
        CASE c = "Monthly Fee" -> Str(<<"c", "a", "l", "l">>)
          [] c = "Est. Waitlist Length" -> Str("2-4 months")
          [] c = "Contract (w rate)?" -> Str(No)
          [] c = "Geocode" -> Str(<<"3", ",", "4">>)]),
     Change(BaseCells, [c \in {"Enhanced", "Enriched", "Contract (w rate)?",
                               "Work with Placement?", "Geocode"} |->
        CASE c = "Enhanced" -> NaN
          [] c = "Enriched" -> Str(No)
          [] c = "Contract (w rate)?" -> Str(No)
          [] c = "Work with Placement?" -> NaN
          [] c = "Geocode" -> NaN])}

\* the communities of the three-row workbooks: the base one, one priced above
\* the budget and one without a price
FilterTriples ==
    {cells \in FilterRows :
        \/ cells = BaseCells
        \/ cells["Monthly Fee"] = Num(3500)
        \/ cells["Monthly Fee"] = Str(<<"c", "a", "l", "l">>)}

MandatoryColumns == {"Type of Service", "Monthly Fee"}
OptionalColumns == AllColumns \ MandatoryColumns

FilterWorkbooks ==
    {Workbook(AllColumns, cells) : cells \in SeqsUpTo(FilterRows, MaxRowsFilter)}
    \cup {Workbook(AllColumns, cells) : cells \in [1..3 -> FilterTriples]}
    \cup {Workbook(AllColumns \ {c}, <<BaseCells>>) : c \in OptionalColumns}
    \cup {Workbook(MandatoryColumns, <<BaseCells>>)}

Absent == [t |-> "absent"]
\* the dict holding the keys whose value is not Absent
DictOf(f) == [k \in {x \in DOMAIN f : f[x] # Absent} |-> f[k]]

FilterPrefs ==
    {DictOf([care_level |-> care, enhanced |-> enhanced, enriched |-> enriched,
             move_in_window |-> move_in, max_budget |-> budget,
             preferred_location |-> List(<<>>)]) :
        care \in {Str(Unknown), Str(AL), Absent},
        enhanced \in {Str("Yes"), Absent},
        enriched \in {Str("No")},
        move_in \in {Str("Immediate (0-1 months)"), Str("Near-term (1-6 months)"), Absent},
        budget \in {Num(3000), Absent}}
    \cup
    {DictOf([care_level |-> Str(Unknown), enhanced |-> enhanced, enriched |-> Str("Yes"),
             move_in_window |-> Str("Flexible (6+ months)"), max_budget |-> budget,
             preferred_location |-> List(<<>>)]) :
        enhanced \in {Str("Yes"), Str("No")},
        budget \in {Num(3000), Absent}}

InitFilter == InitWith(FilterWorkbooks, FilterPrefs)

SpecFilter == InitFilter /\ [][ProcessNext]_vars

----------------------------------------------------------------------------
(* Properties of the filter chain (SpecFilter) *)

\* the pandas index labels of a table's rows, in row order
Index(t) == [k \in 1..Len(t.rows) |-> t.rows[k].index]

\* a is b with some elements left out, the order kept
RECURSIVE IsSubSeq(_, _)
IsSubSeq(a, b) ==
    IF a = <<>> THEN TRUE
    ELSE IF b = <<>> THEN FALSE
    ELSE IF Head(a) = Head(b) THEN IsSubSeq(Tail(a), Tail(b))
    ELSE IsSubSeq(a, Tail(b))

\* the workbook row that carries index label i
Uploaded(i) == excel_file.rows[i + 1]

MaxBudgetSet ==
    /\ "max_budget" \in DOMAIN preferences
    /\ preferences["max_budget"].t = "num"
    /\ preferences["max_budget"].v > 0

\* a fee cell that holds a number or the text of one
NumericFee(x) == x.t = "num" \/ (x.t = "str" /\ IsNumeric(x.v))

\* the table the budget stage receives
BeforeBudget ==
    WaitlistFilter(preferences,
        EnrichedFilter(preferences,
            EnhancedFilter(preferences,
                CareLevelFilter(preferences, excel_file))))

\* C9: when max_budget is set, every row that leaves the budget filter has a
\* numeric Monthly Fee of at most max_budget, and no row whose fee is missing
\* or not numeric leaves it; when max_budget is not set, the budget stage
\* removes no row.
C9_BudgetFilter ==
    pc = "priority" =>
        IF MaxBudgetSet
        THEN /\ \A k \in 1..Len(df.rows) :
                  /\ df.rows[k].cell["Monthly Fee"].t = "num"
                  /\ df.rows[k].cell["Monthly Fee"].v <= preferences["max_budget"].v
                  /\ NumericFee(Uploaded(df.rows[k].index).cell["Monthly Fee"])
             /\ \A i \in 1..Len(excel_file.rows) :
                  ~NumericFee(excel_file.rows[i].cell["Monthly Fee"])
                      => \A k \in 1..Len(df.rows) : df.rows[k].index # excel_file.rows[i].index
        ELSE df = BeforeBudget

\* A run in which the budget stage received a row without a numeric fee and a
\* row it kept.
C9_Witness ==
    /\ pc = "priority"
    /\ MaxBudgetSet
    /\ df.rows # <<>>
    /\ \E k \in 1..Len(BeforeBudget.rows) :
          ~NumericFee(BeforeBudget.rows[k].cell["Monthly Fee"])

\* C10: the rows leaving the filter chain are rows of the workbook, in the
\* workbook's order, each with its cells as uploaded (the Monthly Fee in its
\* numeric form once the budget stage has run), and the chain applied to its
\* own output returns that output.
C10_FilterChainSubsequence ==
    pc = "priority" =>
        /\ df.columns = excel_file.columns
        /\ IsSubSeq(Index(df), Index(excel_file))
        /\ \A k \in 1..Len(df.rows) : \A c \in df.columns :
              LET now == df.rows[k].cell[c]
                  was == Uploaded(df.rows[k].index).cell[c]
              IN  \/ now = was
                  \/ c = "Monthly Fee" /\ MaxBudgetSet /\ NumericFee(was) /\ now = to_numeric(was)
        /\ FilterChain(preferences, df) = df

\* A run on three rows in which the chain dropped the middle row.
C10_Witness ==
    /\ pc = "priority"
    /\ Len(excel_file.rows) = 3
    /\ Index(df) = <<0, 2>>

\* a Process Communities run has ended and nothing ran after it
ProcessEnded == pc = "idle" /\ last.step = "process"

\* the workbook gives the run nothing else to fail on: its Type of Service
\* column holds text and its postal codes, if any, are numeric or missing
CleanWorkbook ==
    /\ MandatoryColumns \subseteq excel_file.columns
    /\ HasStrAccessor(excel_file, "Type of Service")
    /\ HasZipColumn(excel_file) =>
          \A i \in 1..Len(excel_file.rows) :
              LET z == excel_file.rows[i].cell[ZipColumn(excel_file)]
              IN  isna(z) \/ CanFloat(z)

PreferenceKeys ==
    {"care_level", "preferred_location", "enhanced", "enriched", "move_in_window", "max_budget"}

\* C3: with the two mandatory columns present, a run whose preferences name
\* every field completes and stores a result, whichever optional columns the
\* workbook lacks.
C3_MissingColumnOnlySkips ==
    (ProcessEnded /\ CleanWorkbook /\ PreferenceKeys \subseteq DOMAIN preferences)
        => (last.outcome = "ok" /\ results # PyNone)

\* C4: on a workbook with every column, a run completes and stores a result
\* whichever optional preference fields are absent or Unknown.
C4_AbsentPreferenceOnlySkips ==
    (ProcessEnded /\ CleanWorkbook /\ excel_file.columns = AllColumns)
        => (last.outcome = "ok" /\ results # PyNone)

----------------------------------------------------------------------------
(* SpecRank: workbooks whose communities differ in priority and distance *)

MaxRowsRank == 6
MaxRowsUnlocated == 3

\* a community with a placement partnership and no contract, at the given place
Partner(lat, lon) ==
    Change(BaseCells, [c \in {"Contract (w rate)?", "Geocode"} |->
        CASE c = "Contract (w rate)?" -> Str(No)
          [] c = "Geocode" -> Str(<<Digits[lat + 1], ",", Digits[lon + 1]>>)])

\* A contracted community 3 miles from the client, four placement partners
\* 0, 1, 1 and 2 miles away, and two communities with neither contract nor
\* partnership, one 2 miles away and one without a place.
RankCatalogue ==
    <<BaseCells,
      Partner(3, 6), Partner(3, 7), Partner(4, 6), Partner(3, 8),
      Change(BaseCells, [c \in {"Contract (w rate)?", "Work with Placement?", "Geocode"} |->
        CASE c = "Contract (w rate)?" -> NaN
          [] c = "Work with Placement?" -> Str(No)
          [] c = "Geocode" -> Str(<<"5", ",", "6">>)]),
      Change(BaseCells, [c \in {"Contract (w rate)?", "Work with Placement?", "ZIP", "Geocode"} |->
        CASE c = "Contract (w rate)?" -> NaN
          [] c = "Work with Placement?" -> Str(No)
          [] c = "ZIP" -> NaN
          [] c = "Geocode" -> NaN])>>

Reverse(q) == [k \in 1..Len(q) |-> q[Len(q) + 1 - k]]

\* at most n of the catalogue's communities, in catalogue order or in reverse
RankSelections(n) ==
    UNION {{Take(RankCatalogue, Ascending(S)), Take(RankCatalogue, Reverse(Ascending(S)))} :
              S \in {T \in SUBSET (1..Len(RankCatalogue)) : Cardinality(T) <= n}}

\* with a postal-code column, and smaller ones without
RankWorkbooks ==
    {Workbook(AllColumns, cells) : cells \in RankSelections(MaxRowsRank)}
    \cup {Workbook(AllColumns \ {"ZIP"}, cells) : cells \in RankSelections(MaxRowsUnlocated)}

RankPrefs == {DictOf([care_level |-> Str(Unknown), preferred_location |-> List(<<>>)])}

InitRank == InitWith(RankWorkbooks, RankPrefs)

SpecRank == InitRank /\ [][ProcessNext]_vars

----------------------------------------------------------------------------
(* Properties of the ranking and the shortlist (SpecRank) *)

\* a row's distance, absent when the table has no Distance_miles column
DistanceOf(row) == RowGet(row, "Distance_miles", NaN)

\* the sort key of the ranking: priority tier, then distance with a missing
\* distance after every number
RankedBefore(a, b) ==
    \/ a.cell["Priority_Level"].v < b.cell["Priority_Level"].v
    \/ /\ a.cell["Priority_Level"].v = b.cell["Priority_Level"].v
       /\ notna(DistanceOf(a))
       /\ (isna(DistanceOf(b)) \/ DistanceOf(a).v < DistanceOf(b).v)

\* the stored table holds more rows than the shortlist, each with a distance
LongLocatedResults ==
    /\ pc = "idle"
    /\ results # PyNone
    /\ Len(results.rows) > TopN
    /\ "Distance_miles" \in results.columns
    /\ \A k \in 1..Len(results.rows) : results.rows[k].cell["Distance_miles"].t = "num"

\* C1: the shortlist shown for a stored table is the table's first five rows
\* in (priority, distance) order, so no priority-1 row is left out while a
\* row of priority 2 or 3 is shown.  Stated for stored tables of more than
\* five rows that all have a distance.
C1_ShortlistIsHeadOfRanking ==
    (LongLocatedResults /\ top5 # PyNone) =>
        /\ ~IsErr(top5)
        /\ Len(top5.rows) = TopN
        /\ \A k \in 1..Len(results.rows) :
              (\A j \in 1..Len(top5.rows) : top5.rows[j].index # results.rows[k].index)
                  => \A j \in 1..Len(top5.rows) : ~RankedBefore(results.rows[k], top5.rows[j])
        /\ \A i, j \in 1..Len(top5.rows) :
              i < j => ~RankedBefore(top5.rows[j], top5.rows[i])

\* C8: the stored table is in (priority, distance) order, a missing distance
\* last, and rows with equal priority and equal distance keep their workbook
\* order.
C8_StableRanking ==
    (pc = "idle" /\ results # PyNone) =>
        \A i, j \in 1..Len(results.rows) :
            i < j =>
                /\ ~RankedBefore(results.rows[j], results.rows[i])
                /\ ~RankedBefore(results.rows[i], results.rows[j])
                      => results.rows[i].index < results.rows[j].index

----------------------------------------------------------------------------
(* SpecGeo: workbooks whose postal codes and stored geocodes vary, and      *)
(* preferences with zero, one or two client locations                       *)

MaxRowsGeo == 2

\* a postal code as a number, as text that is no number, or missing
GeoZips == {Num(14580), Str(<<"K", "1", "A">>), NaN}
\* a stored geocode that parses, one that does not, or none
GeoGeocodes == {Str(<<"3", ",", " ", "9">>), Str(<<"x", ",", "y">>), NaN}

GeoRows ==
    {Change(BaseCells, [c \in {"ZIP", "Geocode"} |-> IF c = "ZIP" THEN z ELSE g]) :
        z \in GeoZips, g \in GeoGeocodes}

GeoWorkbooks == {Workbook(AllColumns, cells) : cells \in SeqsUpTo(GeoRows, MaxRowsGeo)}

GeoPrefs ==
    {DictOf([care_level |-> Str(Unknown), preferred_location |-> where]) :
        where \in {Absent, List(<<>>), Str("Webster, NY"),
                   List(<<"Webster, NY", "Penfield, NY">>)}}

InitGeo == InitWith(GeoWorkbooks, GeoPrefs)

SpecGeo == InitGeo /\ [][ProcessNext]_vars

----------------------------------------------------------------------------
(* Properties of the geocoding (SpecGeo) *)

\* C5: in the calls of a run, every geocoder lookup that is followed by
\* another call is followed by the one-second sleep, whatever the lookup did.
C5_SleepBetweenLookups ==
    ProcessEnded =>
        \A i \in 1..(Len(calls) - 1) :
            calls[i].op = "geocode" => calls[i + 1] = Sleep

\* neither the stored geocode nor the postal code of the row can give a
\* coordinate
Unlocatable(row, zip_col) ==
    /\ StoredCoords(row) = PyNone
    /\ isna(row.cell[zip_col]) \/ ~CanFloat(row.cell[zip_col])

\* C6: a run over a workbook with a postal-code column completes when a
\* record has no obtainable coordinate, and every record of a completed run
\* is in the stored table, with a null distance when it got no coordinate.
C6_UnlocatedRecordSurvives ==
    (ProcessEnded /\ HasZipColumn(excel_file)) =>
        \A i \in 1..Len(excel_file.rows) :
            /\ Unlocatable(excel_file.rows[i], ZipColumn(excel_file))
                  => (last.outcome = "ok" /\ results # PyNone)
            /\ last.outcome = "ok" =>
                  \E k \in 1..Len(results.rows) :
                      /\ results.rows[k].index = excel_file.rows[i].index
                      /\ results.rows[k].cell["Community_Coords"] = PyNone
                            => isna(DistanceOf(results.rows[k]))

----------------------------------------------------------------------------
(* SpecPriority: workbooks whose contract and placement cells vary *)

MaxRowsPriority == 2

\* a rate, a refusal with blanks around it, a cell of blanks, an empty cell
PriorityContracts == {Str(<<"1", "0", "%">>), Str(<<" ", "N", "O", " ">>), Str(<<" ">>), NaN}
PriorityPlacements == {Str(<<"Y", "e", "s">>), Str(<<"Y", "E", "S">>), Str(No), NaN}

PriorityRows ==
    {Change(BaseCells, [c \in {"Contract (w rate)?", "Work with Placement?"} |->
                           IF c = "Contract (w rate)?" THEN contract ELSE placement]) :
        contract \in PriorityContracts, placement \in PriorityPlacements}

PriorityWorkbooks ==
    {Workbook(AllColumns, cells) : cells \in SeqsUpTo(PriorityRows, MaxRowsPriority)}
    \cup {Workbook(AllColumns \ missing, <<cells>>) :
             missing \in (SUBSET {"Contract (w rate)?", "Work with Placement?"}) \ {{}},
             cells \in PriorityRows}

PriorityPrefs == {DictOf([care_level |-> Str(Unknown), preferred_location |-> List(<<>>)])}

InitPriority == InitWith(PriorityWorkbooks, PriorityPrefs)

SpecPriority == InitPriority /\ [][ProcessNext]_vars

----------------------------------------------------------------------------
(* Properties of the priority tiers (SpecPriority) *)

\* the reference rule: no contract is "no", "nan" or nothing once trimmed and
\* lower-cased; without a contract, a placement text equal to "yes" whatever
\* its case gives tier 2
ReferenceTier(row) ==
    LET contract == lower(strip(str(RowGet(row, "Contract (w rate)?", Str(<<>>)))))
        placement == lower(str(RowGet(row, "Work with Placement?", Str(<<>>))))
    IN  IF contract \notin {<<"n", "o">>, <<"n", "a", "n">>, <<>>} THEN 1
        ELSE IF placement = <<"y", "e", "s">> THEN 2
        ELSE 3

\* C2: every row gets a tier among 1, 2 and 3, and the tier is the one the
\* reference rule gives, also when the contract cell is empty or blank.
C2_PriorityMatchesReference ==
    pc = "geo" =>
        \A k \in 1..Len(df.rows) :
            /\ df.rows[k].cell["Priority_Level"] \in {Num(1), Num(2), Num(3)}
            /\ df.rows[k].cell["Priority_Level"] = Num(ReferenceTier(df.rows[k]))

----------------------------------------------------------------------------
(* Spec: a session from its start, every handler enabled *)

\* nothing uploaded yet, a complete workbook, or one without the Enhanced
\* column
SessionWorkbooks ==
    {PyNone,
     Workbook(AllColumns, <<BaseCells>>),
     Workbook(AllColumns \ {"Enhanced"}, <<BaseCells>>)}

\* lines 22-27: the session holds no transcription, preferences or results
Init == InitWith(SessionWorkbooks, {})

Spec == Init /\ [][Next]_vars

----------------------------------------------------------------------------
(* Properties of the session state (Spec) *)

\* C7: a step that ends in an error branch leaves transcription, preferences
\* and results as they were before the step.
C7_FailureLeavesSession ==
    [][last'.outcome = "error" => UNCHANGED <<transcription, preferences, results>>]_vars

====
